---- MODULE Spec2Model ----
(***************************************************************************)
(* Job store and render orchestrator of the comic pipeline (src/core.py)   *)
(* together with the caller-side wait loop (src/app/api/worker.py,         *)
(* src/app/services/comic_renderer.py).                                    *)
(*                                                                         *)
(* Time is the wall clock in seconds.  The clock moves by steps taken from *)
(* TickSteps, so that the interesting deadlines (300 s, 900 s, 1800 s,     *)
(* each plus or minus one second) are all reached.                         *)
(*                                                                         *)
(* A run is explored within one of the budgets of Budgets: each bounds the *)
(* clock steps, the process restarts, the jobs started and the worker      *)
(* threads alive at once, and says whether writing a job file may fail.    *)
(***************************************************************************)
EXTENDS Integers, Sequences, FiniteSets, TLC

None == "None"

\* ---------------------------------------------------------------- bounds
MaxTicks == 3
MaxRestarts == 1
MaxStarts == 2
MaxDim == 10
TickSteps == {1, 299, 1799}
JobIds == {"j1"}
Workers == {1, 2}

\* one job followed through time and a restart; two workers alive at once;
\* a job started in each life of the process; one job whose file writes may
\* fail, followed through a restart
TimedBudget ==
  [ticks |-> MaxTicks, restarts |-> MaxRestarts, starts |-> 1, slots |-> 1, faults |-> FALSE]

FaultBudget ==
  [ticks |-> 0, restarts |-> MaxRestarts, starts |-> 1, slots |-> 1, faults |-> TRUE]

Budgets ==
  { TimedBudget,
    FaultBudget,
    [ticks |-> 0, restarts |-> 0, starts |-> MaxStarts, slots |-> 2, faults |-> FALSE],
    [ticks |-> 0, restarts |-> MaxRestarts, starts |-> MaxStarts, slots |-> 1, faults |-> FALSE] }

\* ------------------------------------------------------ program constants
JOB_TTL_SECONDS == 1800
PART_TIMEOUT == 300
WAIT_TIMEOUT == 900
UPLOAD_WORKERS == 4

PanelKeys == {"panel_no", "panel_title", "narration", "dialogues", "panel_context"}

\* ------------------------------------------------------------ JSON values
\* The numbers of a script are what json.loads made of them: the integer n,
\* the float n + 0.5, the string of the decimal digits of n, or null (also
\* what dict.get returns for a missing key).  n is never negative.
Num(n) == [type |-> "int", n |-> n]

Half(n) == [type |-> "float", n |-> n]

Str(n) == [type |-> "str", n |-> n]

Null == [type |-> "null", n |-> 0]

\* int(v): the integer itself, the float truncated, the string parsed; it
\* raises TypeError for None.
IntRaises(v) == v.type = "null"

IntOf(v) == v.n

\* int(v or 0): None and 0 are falsy and give 0
IntOrZero(v) == IF v.type = "null" THEN 0 ELSE IntOf(v)

\* try: int(v) / except Exception: -999
IntOrBad(v) == IF IntRaises(v) THEN 0 - 999 ELSE IntOf(v)

\* ------------------------------------------------------------- scripts
\* A script is [parts |-> sequence of parts]; a part is
\* [part_no, panels |-> sequence of panels]; a panel is [panel_no, keys].
Panel(n) == [panel_no |-> Num(n), keys |-> PanelKeys]

PanelsInOrder == [i \in 1..9 |-> Panel(i)]

PanelsReversed == [i \in 1..9 |-> Panel(10 - i)]

PartOf(pno, panels) == [part_no |-> Num(pno), panels |-> panels]

ScriptDef(name) ==
  CASE name = "ok"        -> [parts |-> <<PartOf(1, PanelsInOrder), PartOf(2, PanelsInOrder)>>]
    [] name = "shuffled"  -> [parts |-> <<PartOf(2, PanelsReversed), PartOf(1, PanelsReversed)>>]
    [] name = "twins"     -> [parts |-> <<PartOf(1, PanelsInOrder), PartOf(1, PanelsReversed)>>]
    [] name = "one_part"  -> [parts |-> <<PartOf(1, PanelsInOrder)>>]
    [] name = "eight"     -> [parts |-> <<PartOf(1, PanelsInOrder),
                                          PartOf(2, [i \in 1..8 |-> Panel(i)])>>]
    [] name = "gap"       -> [parts |-> <<PartOf(1, PanelsInOrder),
                                          PartOf(2, [i \in 1..9 |-> Panel(IF i = 9 THEN 10 ELSE i)])>>]
    [] name = "dup"       -> [parts |-> <<PartOf(1, PanelsInOrder),
                                          PartOf(2, [i \in 1..9 |-> Panel(IF i = 9 THEN 8 ELSE i)])>>]
    [] name = "nokey"     -> [parts |-> <<PartOf(1, PanelsInOrder),
                                          PartOf(2, [i \in 1..9 |->
                                             IF i = 5 THEN [panel_no |-> Num(5), keys |-> PanelKeys \ {"narration"}]
                                                      ELSE Panel(i)])>>]

Scripts == {"shuffled", "twins", "one_part", "nokey"}

\* validate_script_shape: TRUE when no ValueError is raised.
PanelNums(part) == [i \in 1..Len(part.panels) |-> IntOrBad(part.panels[i].panel_no)]

PartShapeOk(part) ==
  /\ IntOrZero(part.part_no) \in {1, 2}
  /\ Len(part.panels) = 9
  /\ SortSeq(PanelNums(part), LAMBDA a, b : a < b) = [i \in 1..9 |-> i]
  /\ Cardinality({PanelNums(part)[i] : i \in 1..Len(part.panels)}) = 9
  /\ \A i \in 1..Len(part.panels) : PanelKeys \subseteq part.panels[i].keys

validate_script_shape(script) ==
  /\ Len(script.parts) = 2
  /\ \A i \in 1..Len(script.parts) : PartShapeOk(script.parts[i])

\* next(p for p in parts if int(p.part_no) == part_no) finds a part: the
\* render of part_no raises "part_no not found" when it does not.
HasPart(script, pno) ==
  \E i \in 1..Len(script.parts) : IntOrZero(script.parts[i].part_no) = pno

\* build_read_along_pages: parts sorted by part_no, panels by panel_no,
\* page_no counting from 1.
SortedPanelNos(part) ==
  SortSeq([i \in 1..Len(part.panels) |-> IntOrZero(part.panels[i].panel_no)],
          LAMBDA a, b : a < b)

PagesOfPart(part, first) ==
  [i \in 1..Len(part.panels) |->
     [page_no |-> first + i - 1, part_no |-> IntOrZero(part.part_no),
      panel_no |-> SortedPanelNos(part)[i]]]

RECURSIVE PagesFrom(_, _)
PagesFrom(parts, first) ==
  IF parts = <<>> THEN <<>>
  ELSE PagesOfPart(Head(parts), first)
         \o PagesFrom(Tail(parts), first + Len(Head(parts).panels))

build_read_along_pages(script) ==
  PagesFrom(SortSeq(script.parts,
                    LAMBDA a, b : IntOrZero(a.part_no) < IntOrZero(b.part_no)), 1)

\* ------------------------------------------------------------ dictionaries
\* A Python dict is a function whose domain is the set of its keys.
EmptyDict == [k \in {} |-> None]

Put(d, k, v) == [x \in (DOMAIN d) \cup {k} |-> IF x = k THEN v ELSE d[x]]

Drop(d, ks) == [x \in (DOMAIN d) \ ks |-> d[x]]

\* dict.update(patch): the fields of patch replace those of job.
Update(job, patch) == [f \in DOMAIN job |-> IF f \in DOMAIN patch THEN patch[f] ELSE job[f]]

\* Optional values: <<>> is Python's None, <<v>> is the value v.
Nil == <<>>

Some(v) == <<v>>

\* --------------------------------------------------------------- state
VARIABLES
  budget,     \* the bounds of this run, one of Budgets
  starts,     \* number of jobs started so far
  now,        \* time.time(), seconds
  ticks,      \* number of clock steps taken so far
  restarts,   \* number of process restarts so far
  JOBS,       \* the in-memory job map (core.JOBS)
  DISK,       \* the job files job_{id}.json of EXPORT_DIR
  pdf_files,  \* the PDF files present in EXPORT_DIR
  wk,         \* the render worker threads
  cl,         \* the caller thread (API request or wait loop)
  last,       \* the call that has just returned and what it returned
  grid_files, \* the grid preview files nanobanana_grid_*.png of EXPORT_DIR
  blobs,      \* the blobs of the storage bucket
  arg,        \* the argument of the function examined on its own
  ret         \* what that function returned

vars == <<arg, ret, blobs, grid_files, budget, starts, now, ticks, restarts, JOBS, DISK, pdf_files, wk, cl, last>>

\* The outcomes of a write of a job file in this run.
SaveOutcomes == IF budget.faults THEN {TRUE, FALSE} ELSE {TRUE}

\* ------------------------------------------------------------ job files
PdfPath(j) == <<"nanobanana_comic_panels", j>>

\* upload_image_to_gcs / upload_panels_parallel: slot i of panel_urls is the
\* blob path of panel i, or Nil when that upload failed.
FailSets == {{}, {4}}

PanelUrl(j, pno, i) == <<"comics/panels", j, pno, i>>

\* _grid_png_path: nanobanana_grid_{job_id}_part{part_no}.png
GridPath(j, pno) == <<"nanobanana_grid", j, pno>>

\* upload_grid_to_gcs: comics/grids/{job_id}/part{part_no}_grid.png
GridBlob(j, pno) == <<"comics/grids", j, pno>>

\* render_part_payload: what a successful part render returns.
render_part_payload(j, pno, failed) ==
  [part_no |-> pno,
   grid_path |-> GridPath(j, pno),
   panels |-> [i \in 1..9 |-> i - 1],
   panel_urls |-> [i \in 1..9 |-> IF (i - 1) \in failed THEN Nil ELSE PanelUrl(j, pno, i - 1)]]

\* render_part_payload: what a successful part render leaves in the bucket,
\* the grid (its upload is taken to succeed) and the panels whose upload
\* did not fail.
PartBlobs(j, pno, failed) ==
  {GridBlob(j, pno)} \cup {PanelUrl(j, pno, i) : i \in (0..8) \ failed}

\* ------------------------------------------------------------ job store

\* Expired with the boundary one second late: C10 tells it from Expired.
Expired_Late(job, t) ==
  job.created_at # 0 /\ (t - job.created_at) > JOB_TTL_SECONDS + 1

\* A job is expired when it has a timestamp older than the TTL.
Expired(job, t) == job.created_at # 0 /\ (t - job.created_at) > JOB_TTL_SECONDS

\* cleanup_jobs that removes every job, whatever its age: C13 tells it from
\* cleanup_jobs.
cleanup_jobs_Eager(J, D, P, t) == [JOBS |-> EmptyDict, DISK |-> EmptyDict, pdf |-> {}]

\* cleanup_jobs: the memory pass pops every expired job, unlinks its PDF
\* and its job file; the disk pass then removes every expired job file.
cleanup_jobs(J, D, P, t) ==
  LET dead  == {j \in DOMAIN J : Expired(J[j], t)}
      P1    == P \ UNION {{J[j].pdf_path} : j \in dead}
      D1    == Drop(D, dead)
      deadD == {j \in DOMAIN D1 : Expired(D1[j], t)}
      P2    == P1 \ UNION {{D1[j].pdf_path} : j \in deadD}
  IN [JOBS |-> Drop(J, dead), DISK |-> Drop(D1, deadD), pdf |-> P2]

\* _cleanup_preview_files_from_job: the grid_path of part1 and of part2
PreviewFiles(job) ==
  (IF job.part1 = Nil THEN {} ELSE {job.part1[1].grid_path})
    \cup (IF job.part2 = Nil THEN {} ELSE {job.part2[1].grid_path})

\* the grid preview files cleanup_jobs leaves: those named by a record it
\* removes, in memory or on disk, are unlinked
cleanup_previews(J, D, G, t) ==
  LET dead  == {j \in DOMAIN J : Expired(J[j], t)}
      D1    == Drop(D, dead)
      deadD == {j \in DOMAIN D1 : Expired(D1[j], t)}
  IN (G \ UNION {PreviewFiles(J[j]) : j \in dead}) \ UNION {PreviewFiles(D1[j]) : j \in deadD}

\* _save_job_to_disk: the file is written, or the write raises, the
\* exception is logged and the file stays as it was (saved = FALSE).
save_job_to_disk(D, job, saved) == IF saved THEN Put(D, job.job_id, job) ELSE D

NewJob(jid, s, t) ==
  [job_id |-> jid, created_at |-> t, status |-> "queued", error |-> Nil,
   part1 |-> Nil, part2 |-> Nil, pdf_path |-> Nil, script |-> s,
   read_pages |-> build_read_along_pages(ScriptDef(s))]

\* a _job_set that stores the patch of an unknown job as a new record: C28
\* tells it from job_set.
job_set_Upsert(J, D, jid, patch, saved) ==
  LET J1 == IF jid \notin DOMAIN J /\ jid \in DOMAIN D THEN Put(J, jid, D[jid]) ELSE J
      J2 == IF jid \notin DOMAIN J1 THEN Put(J1, jid, NewJob(jid, "ok", 0)) ELSE J1
      job == Update(J2[jid], patch)
  IN [JOBS |-> Put(J2, jid, job), DISK |-> save_job_to_disk(D, job, saved)]

\* _job_set: update in memory (reviving from disk when absent) and save.
job_set(J, D, jid, patch, saved) ==
  LET J1 == IF jid \notin DOMAIN J /\ jid \in DOMAIN D THEN Put(J, jid, D[jid]) ELSE J
  IN IF jid \notin DOMAIN J1 THEN [JOBS |-> J, DISK |-> D]
     ELSE LET job == Update(J1[jid], patch)
          IN [JOBS |-> Put(J1, jid, job), DISK |-> save_job_to_disk(D, job, saved)]

\* ---------------------------------------------------------- worker state
IdleWorker ==
  [pc |-> "idle", job |-> None, script |-> None, start_time |-> 0, wait_from |-> 0,
   fut |-> <<"idle", "idle">>, res |-> <<Nil, Nil>>, errors |-> <<>>,
   got |-> <<"none", "none">>, over |-> <<FALSE, FALSE>>]

\* wk[w].got[p] tells how the worker's wait for part p ended ("result",
\* "raised" or "timeout"); wk[w].over[p] tells whether the render of part p
\* lasted more than PART_TIMEOUT seconds from its submission.

IdleClient ==
  [pc |-> "idle", op |-> None, job |-> None, disk_job |-> Nil,
   loop |-> FALSE, start_time |-> 0]

\* get_read: the read_pages of the job get_job returned, None without a job
get_read(found) == IF found = Nil THEN Nil ELSE Some(found[1].read_pages)

\* what a call returned: out is the status of the job returned, or the
\* exception raised; pages is the number of read_pages of the job returned,
\* read what get_read makes of that job
Result(op, jid, out, found) ==
  [op |-> op, job |-> jid, out |-> out,
   pages |-> IF found = Nil THEN 0 ELSE Len(found[1].read_pages),
   read |-> get_read(found)]

NoCall == Result("none", None, None, Nil)

\* no function is examined on its own while the job store runs
NoArg == [fn |-> "none"]

NoRet == [fn |-> "none"]

Init ==
  /\ budget \in Budgets
  /\ starts = 0
  /\ now = 1
  /\ ticks = 0
  /\ restarts = 0
  /\ JOBS = EmptyDict
  /\ DISK = EmptyDict
  /\ pdf_files = {}
  /\ grid_files = {}
  /\ blobs = {}
  /\ wk = [w \in Workers |-> IdleWorker]
  /\ cl = IdleClient
  /\ last = NoCall
  /\ arg = NoArg
  /\ ret = NoRet

\* ---------------------------------------------------------------- clock
\* Time passes while the threads are blocked: a worker in
\* future.result(timeout=300) or in the pool's shutdown with a render still
\* running, the caller between two calls.  A worker blocked in
\* future.result(timeout=300) wakes up when the timeout elapses: the clock
\* does not pass that instant while it is still blocked.
WaitingOn(w) ==
  IF wk[w].pc = "wait1" THEN 1 ELSE IF wk[w].pc = "wait2" THEN 2 ELSE 0

Blocked(w) == WaitingOn(w) # 0 /\ wk[w].fut[WaitingOn(w)] = "running"

Joining(w) == wk[w].pc = "join" /\ \E p \in {1, 2} : wk[w].fut[p] = "running"

Tick(d) ==
  /\ ticks < budget.ticks
  /\ cl.pc = "idle"
  /\ \A w \in Workers : wk[w].pc \in {"idle", "finished"} \/ Blocked(w) \/ Joining(w)
  /\ \A w \in Workers : Blocked(w) => now + d <= wk[w].wait_from + PART_TIMEOUT
  /\ now' = now + d
  /\ ticks' = ticks + 1
  /\ last' = NoCall
  /\ UNCHANGED <<arg, ret, blobs, grid_files, budget, starts, restarts, JOBS, DISK, pdf_files, wk, cl>>

\* -------------------------------------------------------- StartRenderJob
\* start_render_all_job(script, job_id): cleanup, validation, read-along
\* pages, the record stored and saved under the lock, the worker thread
\* started.  wait tells whether the caller then enters the wait loop
\* (worker.py, comic_renderer.py) or returns at once (comic_generator.py).
Slots == {w \in Workers : w <= budget.slots}

FreeWorker == CHOOSE w \in Slots : wk[w].pc = "idle" /\ \A v \in Slots : wk[v].pc = "idle" => w <= v

\* StartRenderJob that stores the record before it validates the script: C7
\* tells it from StartRenderJob.
StartRenderJob_StoreFirst(jid, s, wait) ==
  LET c == cleanup_jobs(JOBS, DISK, pdf_files, now)
  IN /\ wait => (cl.pc = "idle" /\ ~cl.loop)
     /\ pdf_files' = c.pdf
     /\ grid_files' = cleanup_previews(JOBS, DISK, grid_files, now)
     /\ JOBS' = Put(c.JOBS, jid, NewJob(jid, s, now))
     /\ \E saved \in SaveOutcomes :
          DISK' = save_job_to_disk(c.DISK, NewJob(jid, s, now), saved)
     /\ IF ~validate_script_shape(ScriptDef(s))
        THEN /\ last' = Result("start", jid, "ValueError", Nil)
             /\ UNCHANGED <<starts, wk, cl>>
        ELSE /\ starts < budget.starts
             /\ \E w \in Slots : wk[w].pc = "idle"
             /\ starts' = starts + 1
             /\ wk' = [wk EXCEPT ![FreeWorker] =
                         [IdleWorker EXCEPT !.pc = "spawned", !.job = jid, !.script = s]]
             /\ cl' = IF wait
                      THEN [IdleClient EXCEPT !.loop = TRUE, !.job = jid, !.start_time = now]
                      ELSE cl
             /\ last' = Result("start", jid, "queued", Some(NewJob(jid, s, now)))
     /\ UNCHANGED <<arg, ret, blobs, budget, now, ticks, restarts>>

StartRenderJob(jid, s, wait) ==
  LET c == cleanup_jobs(JOBS, DISK, pdf_files, now)
  IN /\ wait => (cl.pc = "idle" /\ ~cl.loop)
     /\ pdf_files' = c.pdf
     /\ grid_files' = cleanup_previews(JOBS, DISK, grid_files, now)
     /\ IF ~validate_script_shape(ScriptDef(s))
        THEN /\ JOBS' = c.JOBS
             /\ DISK' = c.DISK
             /\ last' = Result("start", jid, "ValueError", Nil)
             /\ UNCHANGED <<starts, wk, cl>>
        ELSE /\ starts < budget.starts
             /\ \E w \in Slots : wk[w].pc = "idle"
             /\ starts' = starts + 1
             /\ JOBS' = Put(c.JOBS, jid, NewJob(jid, s, now))
             /\ \E saved \in SaveOutcomes :
                  DISK' = save_job_to_disk(c.DISK, NewJob(jid, s, now), saved)
             /\ wk' = [wk EXCEPT ![FreeWorker] =
                         [IdleWorker EXCEPT !.pc = "spawned", !.job = jid, !.script = s]]
             /\ cl' = IF wait
                      THEN [IdleClient EXCEPT !.loop = TRUE, !.job = jid, !.start_time = now]
                      ELSE cl
             /\ last' = Result("start", jid, "queued", Some(NewJob(jid, s, now)))
     /\ UNCHANGED <<arg, ret, blobs, budget, now, ticks, restarts>>

\* ------------------------------------------------------ _render_job_worker
SetJobs(r) == JOBS' = r.JOBS /\ DISK' = r.DISK

\* _job_set(job_id, {"status": "rendering_parallel", "error": None}), then
\* both parts are submitted to the pool and future1.result(timeout=300)
\* begins.  (The pool's threads are taken to start: the outer except, which
\* only a failing submit reaches, is left out.)
WorkerBegin(w) ==
  /\ wk[w].pc = "spawned"
  /\ \E saved \in SaveOutcomes :
       SetJobs(job_set(JOBS, DISK, wk[w].job,
                       [status |-> "rendering_parallel", error |-> Nil], saved))
  /\ wk' = [wk EXCEPT ![w].pc = "wait1", ![w].fut = <<"running", "running">>,
                      ![w].start_time = now, ![w].wait_from = now]
  /\ last' = NoCall
  /\ UNCHANGED <<arg, ret, blobs, grid_files, budget, starts, now, ticks, restarts, pdf_files, cl>>

\* A part render ends in its pool thread while the worker is not waiting
\* for it: Part 2 while the worker waits for Part 1, or a part whose wait
\* timed out.  It returns its payload or raises.
PartEnds(w, p, ok, failed) ==
  /\ wk[w].fut[p] = "running"
  /\ WaitingOn(w) # p
  /\ ok => HasPart(ScriptDef(wk[w].script), p)
  /\ wk' = [wk EXCEPT ![w].fut[p] = IF ok THEN "ok" ELSE "raised",
                      ![w].res[p] = IF ok THEN Some(render_part_payload(wk[w].job, p, failed)) ELSE Nil,
                      ![w].over[p] = (now - wk[w].start_time) > PART_TIMEOUT]
  /\ grid_files' = IF ok THEN grid_files \cup {GridPath(wk[w].job, p)} ELSE grid_files
  /\ blobs' = IF ok THEN blobs \cup PartBlobs(wk[w].job, p, failed) ELSE blobs
  /\ last' = NoCall
  /\ UNCHANGED <<arg, ret, budget, starts, now, ticks, restarts, JOBS, DISK, pdf_files, cl>>

NextPc(p) == IF p = 1 THEN "wait2" ELSE "join"

PartField(p) == IF p = 1 THEN "part1" ELSE "part2"

PartPatch(p, v) == [f \in {PartField(p)} |-> v]

\* partN = futureN.result(timeout=300); _job_set(job_id, {"partN": partN}).
\* The part has returned before, or returns now and wakes the worker up.
WorkerResult(w, p, failed) ==
  LET early == wk[w].fut[p] = "ok"
      partN == IF early THEN wk[w].res[p] ELSE Some(render_part_payload(wk[w].job, p, failed))
  IN /\ WaitingOn(w) = p
     /\ wk[w].fut[p] \in {"ok", "running"}
     /\ early => failed = {}
     /\ ~early => HasPart(ScriptDef(wk[w].script), p)
     /\ \E saved \in SaveOutcomes :
          SetJobs(job_set(JOBS, DISK, wk[w].job, PartPatch(p, partN), saved))
     /\ wk' = [wk EXCEPT ![w].pc = NextPc(p), ![w].wait_from = now,
                         ![w].fut[p] = "ok", ![w].res[p] = Nil, ![w].got[p] = "result",
                         ![w].over[p] = IF early THEN @ ELSE (now - wk[w].start_time) > PART_TIMEOUT]
     /\ grid_files' = IF early THEN grid_files ELSE grid_files \cup {GridPath(wk[w].job, p)}
     /\ blobs' = IF early THEN blobs ELSE blobs \cup PartBlobs(wk[w].job, p, failed)
     /\ last' = NoCall
     /\ UNCHANGED <<arg, ret, budget, starts, now, ticks, restarts, pdf_files, cl>>

PartLabel(p) == IF p = 1 THEN "Part 1 failed" ELSE "Part 2 failed"

\* except Exception as e: errors.append(f"Part N failed: {e}")
\* e is the part's exception (raised before, or raised now), or the
\* TimeoutError of a wait that has lasted 300 s.
WorkerExcept(w, p, timeout) ==
  /\ WaitingOn(w) = p
  /\ IF timeout
     THEN wk[w].fut[p] = "running" /\ now - wk[w].wait_from >= PART_TIMEOUT
     ELSE wk[w].fut[p] \in {"raised", "running"}
  /\ wk' = [wk EXCEPT ![w].pc = NextPc(p), ![w].wait_from = now,
                      ![w].fut[p] = IF timeout THEN "running" ELSE "raised",
                      ![w].got[p] = IF timeout THEN "timeout" ELSE "raised",
                      ![w].over[p] = IF wk[w].fut[p] = "raised" \/ timeout THEN @
                                     ELSE (now - wk[w].start_time) > PART_TIMEOUT,
                      ![w].errors = Append(@,
                          [label |-> PartLabel(p),
                           e |-> IF timeout THEN "TimeoutError" ELSE "Exception"])]
  /\ last' = NoCall
  /\ UNCHANGED <<arg, ret, blobs, grid_files, budget, starts, now, ticks, restarts, JOBS, DISK, pdf_files, cl>>

\* "; ".join(errors): the message is the sequence of its fragments
JoinErrors(errors) == errors

\* FinalPatch that fails the job only when both parts failed: C2 tells it
\* from FinalPatch.
FinalPatch_BothFailed(errors) ==
  IF Len(errors) = 2 THEN [status |-> "error", error |-> Some(JoinErrors(errors))]
  ELSE [status |-> "done"]

FinalPatch(errors) ==
  IF errors # <<>> THEN [status |-> "error", error |-> Some(JoinErrors(errors))]
  ELSE [status |-> "done"]

\* leaving the with-block is executor.shutdown(wait=True): it returns when
\* both part threads have ended; then the final _job_set.
WorkerFinish(w) ==
  /\ wk[w].pc = "join"
  /\ \A p \in {1, 2} : wk[w].fut[p] # "running"
  /\ \E saved \in SaveOutcomes :
       SetJobs(job_set(JOBS, DISK, wk[w].job, FinalPatch(wk[w].errors), saved))
  /\ wk' = [wk EXCEPT ![w] = [IdleWorker EXCEPT !.pc = "finished", !.job = wk[w].job,
                                                !.errors = wk[w].errors, !.got = wk[w].got,
                                                !.over = wk[w].over]]
  /\ last' = NoCall
  /\ UNCHANGED <<arg, ret, blobs, grid_files, budget, starts, now, ticks, restarts, pdf_files, cl>>

\* ------------------------------------------------------------------ get_job
\* What the caller does with the job get_job returned (found: Nil or <<job>>):
\*   "get"   the plain GetJob call returns it;
\*   "wait"  one round of the wait loop: done ends it, error raises
\*           RuntimeError, anything else sleeps and goes round again;
\*   "pdf"   ensure_job_pdf checks the job and either raises, returns the
\*           existing file, or goes on to write the PDF.
StatusOf(found) == IF found = Nil THEN "NotFound" ELSE found[1].status

PanelCount(part) == IF part = Nil THEN 0 ELSE Len(part[1].panels)

Returned(op, jid, found) ==
  CASE op = "get" ->
         /\ cl' = IdleClient
         /\ last' = Result("get_job", jid, StatusOf(found), found)
    [] op = "wait" ->
         IF StatusOf(found) = "done"
         THEN /\ cl' = IdleClient
              /\ last' = Result("wait", jid, "done", found)
         ELSE IF StatusOf(found) = "error"
         THEN /\ cl' = IdleClient
              /\ last' = Result("wait", jid, "RuntimeError", found)
         ELSE /\ cl' = [cl EXCEPT !.pc = "idle", !.disk_job = Nil]
              /\ last' = NoCall
    [] op = "pdf" ->
         IF found = Nil
         THEN /\ cl' = IdleClient
              /\ last' = Result("pdf", jid, "not found", Nil)
         ELSE IF found[1].status # "done"
         THEN /\ cl' = IdleClient
              /\ last' = Result("pdf", jid, "not done", found)
         ELSE IF PanelCount(found[1].part1) # 9 \/ PanelCount(found[1].part2) # 9
         THEN /\ cl' = IdleClient
              /\ last' = Result("pdf", jid, "incomplete", found)
         ELSE IF found[1].pdf_path # Nil /\ found[1].pdf_path \in pdf_files'
         THEN /\ cl' = IdleClient
              /\ last' = Result("pdf", jid, "existing", found)
         ELSE /\ cl' = [cl EXCEPT !.pc = "write_pdf", !.op = "pdf", !.job = jid, !.disk_job = Nil]
              /\ last' = NoCall

\* get_job up to its disk read: cleanup_jobs, the lookup under the lock and,
\* on a miss, _load_job_from_disk.  A hit or a missing file returns at once;
\* a record read from disk is inserted by GetJobRevive.
GetJobLookup(op, jid) ==
  LET c == cleanup_jobs(JOBS, DISK, pdf_files, now)
  IN /\ JOBS' = c.JOBS
     /\ DISK' = c.DISK
     /\ pdf_files' = c.pdf
     /\ grid_files' = cleanup_previews(JOBS, DISK, grid_files, now)
     /\ IF jid \in DOMAIN c.JOBS THEN Returned(op, jid, Some(c.JOBS[jid]))
        ELSE IF jid \in DOMAIN c.DISK
        THEN /\ cl' = [cl EXCEPT !.pc = "revive", !.op = op, !.job = jid,
                                 !.disk_job = Some(c.DISK[jid])]
             /\ last' = NoCall
        ELSE Returned(op, jid, Nil)
     /\ UNCHANGED <<arg, ret, blobs, budget, starts, now, ticks, restarts, wk>>

\* with JOBS_LOCK: JOBS[job_id] = disk_job; return dict(disk_job)
GetJobRevive ==
  /\ cl.pc = "revive"
  /\ JOBS' = Put(JOBS, cl.job, cl.disk_job[1])
  /\ pdf_files' = pdf_files
  /\ Returned(cl.op, cl.job, cl.disk_job)
  /\ UNCHANGED <<arg, ret, blobs, grid_files, budget, starts, now, ticks, restarts, DISK, wk>>

GetJob(jid) ==
  /\ cl.pc = "idle" /\ ~cl.loop
  /\ GetJobLookup("get", jid)

\* ------------------------------------------------------------- wait loop
\* while True: if time.time() - start_time > timeout: raise TimeoutError
WaitTimeout ==
  /\ cl.pc = "idle" /\ cl.loop
  /\ now - cl.start_time > WAIT_TIMEOUT
  /\ cl' = IdleClient
  /\ last' = Result("wait", cl.job, "TimeoutError", Nil)
  /\ UNCHANGED <<arg, ret, blobs, grid_files, budget, starts, now, ticks, restarts, JOBS, DISK, pdf_files, wk>>

\* job_state = core.get_job(job_id) and the status test
WaitPoll ==
  /\ cl.pc = "idle" /\ cl.loop
  /\ ~(now - cl.start_time > WAIT_TIMEOUT)
  /\ GetJobLookup("wait", cl.job)

\* ---------------------------------------------------------- ensure_job_pdf
EnsurePdf(jid) ==
  /\ cl.pc = "idle" /\ ~cl.loop
  /\ GetJobLookup("pdf", jid)

\* write_pdf_panel_by_panel, then _job_set(job_id, {"pdf_path": ...})
WritePdf ==
  /\ cl.pc = "write_pdf"
  /\ pdf_files' = pdf_files \cup {PdfPath(cl.job)}
  /\ \E saved \in SaveOutcomes :
       SetJobs(job_set(JOBS, DISK, cl.job, [pdf_path |-> PdfPath(cl.job)], saved))
  /\ cl' = IdleClient
  /\ last' = Result("pdf", cl.job, "written", Nil)
  /\ UNCHANGED <<arg, ret, blobs, grid_files, budget, starts, now, ticks, restarts, wk>>

\* ------------------------------------------------------------ environment
\* the Cleanup pass on its own (comic_generator.py calls it before reads)
Cleanup ==
  LET c == cleanup_jobs(JOBS, DISK, pdf_files, now)
  IN /\ JOBS' = c.JOBS
     /\ DISK' = c.DISK
     /\ pdf_files' = c.pdf
     /\ grid_files' = cleanup_previews(JOBS, DISK, grid_files, now)
     /\ last' = Result("cleanup", None, None, Nil)
     /\ UNCHANGED <<arg, ret, blobs, budget, starts, now, ticks, restarts, wk, cl>>

\* The process restarts: the map is empty again, every thread is gone, the
\* files of EXPORT_DIR stay.
Restart ==
  /\ restarts < budget.restarts
  /\ restarts' = restarts + 1
  /\ JOBS' = EmptyDict
  /\ wk' = [w \in Workers |-> IdleWorker]
  /\ cl' = IdleClient
  /\ last' = NoCall
  /\ UNCHANGED <<arg, ret, blobs, grid_files, budget, starts, now, ticks, DISK, pdf_files>>


WorkerStep(w) ==
  \/ WorkerBegin(w)
  \/ \E p \in {1, 2}, f \in FailSets : WorkerResult(w, p, f)
  \/ \E p \in {1, 2}, t \in BOOLEAN : WorkerExcept(w, p, t)
  \/ WorkerFinish(w)

PartStep(w) ==
  \E p \in {1, 2} :
    \/ \E f \in FailSets : PartEnds(w, p, TRUE, f)
    \/ PartEnds(w, p, FALSE, {})

ClientStep ==
  \/ \E j \in JobIds : GetJob(j) \/ EnsurePdf(j)
  \/ GetJobRevive
  \/ WaitPoll
  \/ WaitTimeout
  \/ WritePdf

Next ==
  \/ \E d \in TickSteps : Tick(d)
  \/ \E j \in JobIds, s \in Scripts, wait \in BOOLEAN : StartRenderJob(j, s, wait)
  \/ \E w \in Workers : WorkerStep(w) \/ PartStep(w)
  \/ ClientStep
  \/ Cleanup
  \/ Restart

Spec == Init /\ [][Next]_vars

\* ================================================================ claims
\* The job as get_job sees it: the record in memory, else the one on disk.
Known(j) == j \in DOMAIN JOBS \/ j \in DOMAIN DISK

Rec(j) == IF j \in DOMAIN JOBS THEN JOBS[j] ELSE DISK[j]

StatusNow(j) == IF Known(j) THEN Rec(j).status ELSE "absent"

Statuses == {"queued", "rendering_parallel", "done", "error"}

Terminal == {"done", "error"}

StatusEdges ==
  { <<"absent", "queued">>, <<"queued", "rendering_parallel">>,
    <<"rendering_parallel", "done">>, <<"rendering_parallel", "error">> }

\* C1: the status of a job is one of queued, rendering_parallel, done and
\* error, and it changes only along queued -> rendering_parallel -> done or
\* error (a job appears as queued and disappears through Cleanup): a status
\* of done or error never changes again.
C1_StatusMachine ==
  [][\A j \in JobIds :
       /\ StatusNow(j)' \in Statuses \cup {"absent"}
       /\ \/ StatusNow(j)' = StatusNow(j)
          \/ StatusNow(j)' = "absent"
          \/ <<StatusNow(j), StatusNow(j)'>> \in StatusEdges]_vars

\* The step in which worker w leaves the pool and writes the final status.
Finishes(w) == wk[w].pc = "join" /\ wk'[w].pc = "finished"

Mentions(msg, label) == \E i \in 1..Len(msg) : msg[i].label = label

Failed(w, p) == wk[w].got[p] \in {"raised", "timeout"}

\* C2: when a worker finishes, the status it leaves is done iff both waits
\* returned a result; otherwise it is error, with a non-empty message that
\* contains "Part 1 failed" iff Part 1 failed and "Part 2 failed" iff Part 2
\* failed, Part 1 first.
C2_FinalStatus ==
  [][\A w \in Workers :
       (Finishes(w) /\ wk[w].job \in DOMAIN JOBS') =>
          LET job == JOBS'[wk[w].job]
          IN /\ job.status \in Terminal
             /\ job.status = "done" <=> (~Failed(w, 1) /\ ~Failed(w, 2))
             /\ job.status = "error" =>
                  /\ job.error # Nil
                  /\ job.error[1] # <<>>
                  /\ Mentions(job.error[1], "Part 1 failed") <=> Failed(w, 1)
                  /\ Mentions(job.error[1], "Part 2 failed") <=> Failed(w, 2)
                  /\ (Failed(w, 1) /\ Failed(w, 2)) =>
                       /\ job.error[1][1].label = "Part 1 failed"
                       /\ job.error[1][2].label = "Part 2 failed"]_vars

\* Part 1 failed, Part 2 returned, and the worker has left the job in error
\* with a message that mentions Part 1.
C2_Witness ==
  \E w \in Workers :
    /\ wk[w].pc = "finished"
    /\ wk[w].got = <<"timeout", "result">>
    /\ wk[w].job \in DOMAIN JOBS
    /\ JOBS[wk[w].job].status = "error"
    /\ JOBS[wk[w].job].part2 # Nil
    /\ Mentions(JOBS[wk[w].job].error[1], "Part 1 failed")

\* ---------------------------------------------------------------- fairness
\* Threads that can run do run, and a render call returns or raises in the
\* end; the budget leaves no time for a job to expire.
FairBudget ==
  [ticks |-> 1, restarts |-> MaxRestarts, starts |-> 1, slots |-> 1, faults |-> FALSE]

InitFair ==
  /\ budget = FairBudget
  /\ starts = 0
  /\ now = 1
  /\ ticks = 0
  /\ restarts = 0
  /\ JOBS = EmptyDict
  /\ DISK = EmptyDict
  /\ pdf_files = {}
  /\ grid_files = {}
  /\ blobs = {}
  /\ wk = [w \in Workers |-> IdleWorker]
  /\ cl = IdleClient
  /\ last = NoCall
  /\ arg = NoArg
  /\ ret = NoRet

FairSpec ==
  /\ InitFair
  /\ [][Next]_vars
  /\ \A w \in Workers : WF_vars(WorkerStep(w)) /\ WF_vars(PartStep(w))
  /\ WF_vars(GetJobRevive)

\* C3: every job that has been created and is queued or rendering_parallel
\* is eventually seen by get_job in status done or error.
C3_ReachesTerminal ==
  \A j \in JobIds :
    (StatusNow(j) \in {"queued", "rendering_parallel"}) ~> (StatusNow(j) \in Terminal)

\* C4: once a wait has timed out and no wait is left, the worker marks the
\* job error without waiting for the abandoned render: its final write is
\* possible whether or not that render has returned.
C4_NoWaitForAbandoned ==
  \A w \in Workers :
    (wk[w].pc = "join" /\ \E p \in {1, 2} : wk[w].got[p] = "timeout")
       => ENABLED WorkerFinish(w)

\* C5: a worker never leaves its job done when the render of Part 1 or of
\* Part 2 lasted more than 300 s from its submission.
C5_PartDeadline ==
  [][\A w \in Workers :
       (Finishes(w) /\ wk[w].job \in DOMAIN JOBS' /\ JOBS'[wk[w].job].status = "done")
          => (~wk[w].over[1] /\ ~wk[w].over[2])]_vars

\* C6: when the wait loop raises TimeoutError at the 900 s deadline while
\* the job is queued or rendering_parallel, the job it waited for is left in
\* status error with an error message.
C6_DeadlineTerminates ==
  [][(/\ last'.op = "wait" /\ last'.out = "TimeoutError" /\ last' # last
      /\ StatusNow(last'.job) \in {"queued", "rendering_parallel"})
       => \E j \in JobIds : /\ j = last'.job
                             /\ StatusNow(j)' = "error"
                             /\ Rec(j)'.error # Nil]_vars

\* The step in which StartRenderJob raises ValueError / returns a job_id.
StartFails == last'.op = "start" /\ last'.out = "ValueError"

StartReturns == last'.op = "start" /\ last'.out = "queued"

\* C7 as first stated: a StartRenderJob that fails validation changes
\* neither the map nor the disk and dispatches no worker.
C7_NothingChanges ==
  [][StartFails => (JOBS' = JOBS /\ DISK' = DISK /\ wk' = wk)]_vars

\* C7: a StartRenderJob that fails validation adds no record and dispatches
\* no worker; a job that is not older than the TTL keeps its record in
\* memory and on disk, and an older one is removed by the Cleanup pass that
\* runs before the validation.
Fresh(job) == (now - job.created_at) <= JOB_TTL_SECONDS

C7_NothingCreated ==
  [][StartFails =>
       /\ wk' = wk
       /\ cl' = cl
       /\ \A j \in DOMAIN JOBS' : j \in DOMAIN JOBS /\ JOBS'[j] = JOBS[j]
       /\ \A j \in DOMAIN DISK' : j \in DOMAIN DISK /\ DISK'[j] = DISK[j]
       /\ \A j \in DOMAIN JOBS : Fresh(JOBS[j]) => j \in DOMAIN JOBS'
       /\ \A j \in DOMAIN DISK : Fresh(Rec(j)) => j \in DOMAIN DISK']_vars

\* A failed StartRenderJob has returned and the job that existed is still
\* there, in memory and on disk.
C7_Witness ==
  /\ last.op = "start" /\ last.out = "ValueError"
  /\ last.job \in DOMAIN JOBS
  /\ last.job \in DOMAIN DISK
  /\ JOBS[last.job].status = "rendering_parallel"

\* C8: when StartRenderJob returns, the job is in memory and on disk in
\* status queued with its 18 read-along pages, and its worker has not taken
\* a step; a GetJob that follows at once returns that queued job with its
\* pages, never NotFound.
C8_StoredBeforeWorker ==
  [][/\ StartReturns =>
          /\ last'.job \in DOMAIN JOBS'
          /\ JOBS'[last'.job].status = "queued"
          /\ JOBS'[last'.job].created_at = now
          /\ Len(JOBS'[last'.job].read_pages) = 18
          /\ last'.job \in DOMAIN DISK'
          /\ DISK'[last'.job] = JOBS'[last'.job]
          /\ \E w \in Workers : /\ wk[w].pc = "idle"
                                /\ wk'[w].pc = "spawned"
                                /\ wk'[w].job = last'.job
     /\ (last.op = "start" /\ last.out = "queued" /\ cl.pc = "idle"
           /\ last'.op = "get_job" /\ last'.job = last.job) =>
          /\ last'.out = "queued"
          /\ last'.pages = 18]_vars

\* C9: whenever the status of a job is done, part1 and part2 are present
\* and each holds 9 panels and 9 non-empty panel URLs.
PartComplete(part) ==
  /\ part # Nil
  /\ Len(part[1].panels) = 9
  /\ Len(part[1].panel_urls) = 9
  /\ \A i \in 1..Len(part[1].panel_urls) : part[1].panel_urls[i] # Nil

C9_DoneIsComplete ==
  \A j \in JobIds :
    (Known(j) /\ Rec(j).status = "done") => (PartComplete(Rec(j).part1) /\ PartComplete(Rec(j).part2))

\* C10: a Cleanup pass, alone or at the head of GetJob, removes from memory
\* and from disk the job created TTL + 1 seconds ago, for which GetJob then
\* returns NotFound, and leaves in both the job created TTL - 1 seconds
\* ago, which GetJob returns.
Age(j) == now - Rec(j).created_at

C10_TtlBoundary ==
  [][\A j \in JobIds :
       /\ (last'.op = "cleanup" /\ Known(j) /\ Age(j) = JOB_TTL_SECONDS + 1) =>
             (j \notin DOMAIN JOBS' /\ j \notin DOMAIN DISK')
       /\ (last'.op = "cleanup" /\ Known(j) /\ Age(j) = JOB_TTL_SECONDS - 1) =>
             /\ j \in DOMAIN JOBS <=> j \in DOMAIN JOBS'
             /\ j \in DOMAIN DISK <=> j \in DOMAIN DISK'
             /\ Rec(j)' = Rec(j)
       /\ (last'.op = "get_job" /\ last'.job = j /\ cl.pc = "idle"
             /\ Known(j) /\ Age(j) = JOB_TTL_SECONDS + 1) =>
             (last'.out = "NotFound" /\ j \notin DOMAIN JOBS' /\ j \notin DOMAIN DISK')
       /\ (last'.op = "get_job" /\ last'.job = j
             /\ Known(j) /\ Age(j) = JOB_TTL_SECONDS - 1) =>
             (last'.out = Rec(j).status /\ j \in DOMAIN JOBS' /\ JOBS'[j] = Rec(j))]_vars

\* Cleanup has run on a job created TTL - 1 seconds before, which is still
\* in memory and on disk.
C10_Witness ==
  /\ last.op = "cleanup"
  /\ \E j \in JobIds : /\ j \in DOMAIN JOBS
                       /\ j \in DOMAIN DISK
                       /\ now - JOBS[j].created_at = JOB_TTL_SECONDS - 1

\* A step of the Job Store that creates or updates the record of job j in
\* memory: StartRenderJob, a worker's _job_set, the pdf_path update.  (The
\* re-insertion of a record by get_job is not an update.)
Mutates(j) ==
  /\ j \in DOMAIN JOBS'
  /\ j \notin DOMAIN JOBS \/ JOBS'[j] # JOBS[j]
  /\ ~(cl.pc = "revive" /\ cl' # cl)

\* C11: after every creation or update of a job in memory, the job's file
\* on disk holds the same record as the in-memory map.
C11_DualWrite ==
  [][\A j \in JobIds :
       Mutates(j) => (j \in DOMAIN DISK' /\ DISK'[j] = JOBS'[j])]_vars

\* The step in which a GetJob that found the memory cold returns the record
\* it read from the job file.
GetJobRevives(j) ==
  /\ cl.pc = "revive" /\ cl.op = "get" /\ cl.job = j
  /\ last'.op = "get_job" /\ last'.job = j

\* C12: when the memory is cold and the file of an unexpired job is on disk,
\* GetJob does not return NotFound; it returns the record as last persisted
\* and leaves that record in memory, so that the next update is applied on
\* top of it.
C12_CrashRecovery ==
  [][\A j \in JobIds :
       /\ (/\ cl.pc = "idle" /\ last'.op = "get_job" /\ last'.job = j
           /\ j \notin DOMAIN JOBS /\ j \in DOMAIN DISK
           /\ ~Expired(DISK[j], now)) => last'.out # "NotFound"
       /\ GetJobRevives(j) =>
            /\ j \in DOMAIN DISK'
            /\ last'.out = DISK'[j].status
            /\ JOBS'[j] = DISK'[j]]_vars

\* The step in which EnsurePdf raises because the job is unknown, expired or
\* not done.
PdfRefused(j) ==
  /\ last'.op = "pdf" /\ last'.job = j /\ last' # last
  /\ last'.out \in {"not found", "not done"}

\* C13 as first stated: an EnsurePdf that raises writes no PDF file and
\* leaves the record of the job as it was, the record of an expired job
\* included.
C13_RecordUntouched ==
  [][\A j \in JobIds :
       PdfRefused(j) =>
          /\ pdf_files' \subseteq pdf_files
          /\ Known(j)' = Known(j)
          /\ Known(j) => Rec(j)' = Rec(j)]_vars

\* C13: an EnsurePdf that raises because the job is unknown, expired or not
\* done writes no PDF file and updates no record: on disk and in memory
\* every record that is left is the one that was there, but for the record
\* get_job read from the job file and re-inserted in memory; the jobs it
\* removes are those older than the TTL, removed by the Cleanup it runs
\* first.
C13_NoWriteOnRefusal ==
  [][\A j \in JobIds :
       PdfRefused(j) =>
          /\ pdf_files' \subseteq pdf_files
          /\ \A k \in DOMAIN DISK' : k \in DOMAIN DISK /\ DISK'[k] = DISK[k]
          /\ \A k \in DOMAIN DISK : Fresh(DISK[k]) => k \in DOMAIN DISK'
          /\ \A k \in DOMAIN JOBS : Fresh(JOBS[k]) => k \in DOMAIN JOBS'
          /\ \A k \in DOMAIN JOBS' :
               \/ k \in DOMAIN JOBS /\ JOBS'[k] = JOBS[k]
               \/ k = j /\ cl.pc = "revive" /\ JOBS'[k] = cl.disk_job[1]
          /\ j \in DOMAIN JOBS' => JOBS'[j].status # "done"]_vars

\* EnsurePdf has raised on a job that is rendering, which is still in
\* memory and on disk without a PDF.
C13_Witness ==
  /\ last.op = "pdf" /\ last.out = "not done"
  /\ last.job \in DOMAIN JOBS /\ last.job \in DOMAIN DISK
  /\ JOBS[last.job].status = "rendering_parallel"
  /\ JOBS[last.job].pdf_path = Nil
  /\ pdf_files = {}

\* The step in which EnsurePdf returns the path of job j's PDF: the file it
\* has just written ("written") or the file it found ("existing").
PdfReturns(j, how) ==
  last'.op = "pdf" /\ last'.job = j /\ last'.out = how /\ last' # last

\* C14: EnsurePdf returns the same path for a job every time, and it writes
\* the PDF only when no file exists at that path: a call that finds the
\* file returns it without writing it again.
C14_RenderedOnce ==
  [][\A j \in JobIds :
       /\ PdfReturns(j, "written") =>
            (PdfPath(j) \notin pdf_files /\ PdfPath(j) \in pdf_files')
       /\ PdfReturns(j, "existing") =>
            (PdfPath(j) \in pdf_files /\ pdf_files' = pdf_files)]_vars

\* ------------------------------------------------- the script functions
\* validate_script_shape and build_read_along_pages examined on their own:
\* the script is drawn from ScriptInputs, the job store stays as it starts.
store == <<blobs, grid_files, budget, starts, now, ticks, restarts, JOBS, DISK, pdf_files, wk, cl, last>>

Quiet ==
  /\ budget = TimedBudget
  /\ starts = 0
  /\ now = 1
  /\ ticks = 0
  /\ restarts = 0
  /\ JOBS = EmptyDict
  /\ DISK = EmptyDict
  /\ pdf_files = {}
  /\ grid_files = {}
  /\ blobs = {}
  /\ wk = [w \in Workers |-> IdleWorker]
  /\ cl = IdleClient
  /\ last = NoCall

\* nine or so panels numbered by the values of nos, all keys present
PanelsOf(nos) == [i \in 1..Len(nos) |-> [panel_no |-> nos[i], keys |-> PanelKeys]]

PanelNoInputs ==
  { [i \in 1..9 |-> Num(i)],
    [i \in 1..9 |-> Num(10 - i)],
    [i \in 1..9 |-> Str(i)],
    [i \in 1..9 |-> Half(i)],
    [i \in 1..9 |-> IF i = 1 THEN Half(1) ELSE Num(i)],
    [i \in 1..9 |-> IF i = 2 THEN Half(1) ELSE Num(i)],
    [i \in 1..9 |-> IF i = 5 THEN Null ELSE Num(i)],
    [i \in 1..9 |-> Num(IF i = 9 THEN 10 ELSE i)],
    [i \in 1..9 |-> Num(IF i = 9 THEN 8 ELSE i)],
    [i \in 1..9 |-> Num(i - 1)],
    [i \in 1..8 |-> Num(i)],
    [i \in 1..10 |-> Num(i)] }

PanelsInputs ==
  {PanelsOf(nos) : nos \in PanelNoInputs}
    \cup {[i \in 1..9 |-> IF i = 5 THEN [panel_no |-> Num(5), keys |-> PanelKeys \ {k}]
                                   ELSE Panel(i)] : k \in PanelKeys \ {"panel_no"}}

PartNoInputs == {Num(0), Num(1), Num(2), Num(3), Half(1), Half(2), Str(2), Null}

PartInputs ==
  {[part_no |-> pn, panels |-> ps] : pn \in PartNoInputs, ps \in PanelsInputs}

\* the parts that pass on their own, for the scripts of three parts
GoodParts == {PartOf(1, PanelsInOrder), PartOf(2, PanelsReversed)}

ScriptInputs ==
  {[parts |-> <<>>]}
    \cup {[parts |-> <<p>>] : p \in PartInputs}
    \cup {[parts |-> <<p, q>>] : p \in GoodParts \cup {PartOf(1, PanelsReversed)}, q \in PartInputs}
    \cup {[parts |-> <<q, p>>] : p \in GoodParts, q \in PartInputs}
    \cup {[parts |-> <<p, q, r>>] : p \in GoodParts, q \in GoodParts, r \in GoodParts}

InitScript ==
  /\ Quiet
  /\ arg \in ScriptInputs
  /\ ret = NoRet

\* validate_script_shape(script): returns, or raises ValueError
Validate ==
  /\ ret = NoRet
  /\ ret' = [fn |-> "validate_script_shape", raised |-> ~validate_script_shape(arg)]
  /\ UNCHANGED <<arg, store>>

\* build_read_along_pages(script): validates, then builds the pages
BuildPages ==
  /\ ret = NoRet
  /\ ret' = [fn |-> "build_read_along_pages", raised |-> ~validate_script_shape(arg),
             pages |-> IF validate_script_shape(arg) THEN build_read_along_pages(arg) ELSE <<>>]
  /\ UNCHANGED <<arg, store>>

NextScript ==
  \/ Validate
  \/ BuildPages

ScriptSpec == InitScript /\ [][NextScript]_vars

\* ------------------------------------------------------------------- C15
\* v is a whole number of S, written as a JSON integer or as its digits
Whole(v, S) == v.type \in {"int", "str"} /\ v.n \in S

\* the shape C15 describes: two parts numbered 1 or 2, nine panels each,
\* their panel_no values a permutation of 1..9, the five keys on every panel
ShapeAsStated(script) ==
  /\ Len(script.parts) = 2
  /\ \A i \in 1..Len(script.parts) :
       LET panels == script.parts[i].panels
       IN /\ Whole(script.parts[i].part_no, {1, 2})
          /\ Len(panels) = 9
          /\ \A k \in 1..Len(panels) : Whole(panels[k].panel_no, 1..9)
          /\ \A n \in 1..9 : \E k \in 1..Len(panels) : panels[k].panel_no.n = n
          /\ \A k \in 1..Len(panels) : PanelKeys \subseteq panels[k].keys

\* C15: validate_script_shape accepts a script if and only if it has exactly
\* two parts with part_no in {1,2}, each of nine panels whose panel_no values
\* are a permutation of 1..9, every panel carrying the five mandatory keys.
C15_AcceptsIffShape ==
  ret.fn = "validate_script_shape" => (~ret.raised <=> ShapeAsStated(arg))

\* ------------------------------------------------------------------- C16
PartNos(script) == {IntOrZero(script.parts[i].part_no) : i \in 1..Len(script.parts)}

\* C16: every job was created from a script that validation accepted and
\* whose two parts are numbered distinctly, one part_no 1 and one part_no 2.
C16_PartsDistinct ==
  \A j \in DOMAIN JOBS :
    /\ validate_script_shape(ScriptDef(JOBS[j].script))
    /\ PartNos(ScriptDef(JOBS[j].script)) = {1, 2}

\* ------------------------------------------------------------------- C17
\* page k of the read-along list: part (k-1) div 9 + 1, panel (k-1) mod 9 + 1
PagesAsStated ==
  [k \in 1..18 |->
     [page_no |-> k, part_no |-> ((k - 1) \div 9) + 1, panel_no |-> ((k - 1) % 9) + 1]]

\* C17: the read-along pages stored with a job are the 18 pages numbered
\* 1..18, page k naming part (k-1) div 9 + 1 and panel (k-1) mod 9 + 1, and
\* get_read returns that list whenever it finds the job, in every status.
C17_ReadPages ==
  /\ \A j \in DOMAIN JOBS : JOBS[j].read_pages = PagesAsStated
  /\ (last.op = "get_job" /\ last.read # Nil) => last.read[1] = PagesAsStated

\* --------------------------------------------------------- split_grid_3x3
\* The crop boxes of split_grid_3x3 for an image of w x h pixels, in the
\* order in which the two loops append them.  A box covers the pixels
\* left <= x < right, top <= y < bottom.  Python's panels[i] is element
\* i + 1 of the sequence.

\* split_grid_3x3 whose last column and row are as wide as the others: C18
\* tells it from split_grid_3x3.
split_grid_3x3_Equal(w, h) ==
  LET cell_w == w \div 3
      cell_h == h \div 3
      box(row, col) == [left |-> col * cell_w, top |-> row * cell_h,
                        right |-> (col + 1) * cell_w, bottom |-> (row + 1) * cell_h]
      RowOf(row) == <<box(row, 0), box(row, 1), box(row, 2)>>
  IN RowOf(0) \o RowOf(1) \o RowOf(2)

split_grid_3x3(w, h) ==
  LET cell_w == w \div 3
      cell_h == h \div 3
      box(row, col) == [left |-> col * cell_w, top |-> row * cell_h,
                        right |-> IF col < 2 THEN (col + 1) * cell_w ELSE w,
                        bottom |-> IF row < 2 THEN (row + 1) * cell_h ELSE h]
      RowOf(row) == <<box(row, 0), box(row, 1), box(row, 2)>>
  IN RowOf(0) \o RowOf(1) \o RowOf(2)

SizeInputs == [w : 1..MaxDim, h : 1..MaxDim]

InitSplit ==
  /\ Quiet
  /\ arg \in SizeInputs
  /\ ret = NoRet

Split ==
  /\ ret = NoRet
  /\ ret' = [fn |-> "split_grid_3x3", panels |-> split_grid_3x3(arg.w, arg.h)]
  /\ UNCHANGED <<arg, store>>

NextSplit == Split

SplitSpec == InitSplit /\ [][NextSplit]_vars

\* ------------------------------------------------------------------- C18
Covers(box, x, y) == box.left <= x /\ x < box.right /\ box.top <= y /\ y < box.bottom

\* the width of column col and the height of row row, as C18 states them
ColWidth(w, col) == IF col < 2 THEN w \div 3 ELSE w - 2 * (w \div 3)

RowHeight(h, row) == IF row < 2 THEN h \div 3 ELSE h - 2 * (h \div 3)

\* C18: for every width and height from 1 up, split_grid_3x3 returns nine
\* boxes in row-major order (index 3*row + col), every pixel of the image
\* lies in exactly one of them and none reaches outside the image; columns
\* 0 and 1 are W div 3 wide and column 2 takes the rest, and so for the rows.
C18_Tiling ==
  ret.fn = "split_grid_3x3" =>
    /\ Len(ret.panels) = 9
    /\ \A x \in 0..(arg.w - 1), y \in 0..(arg.h - 1) :
         Cardinality({i \in 1..9 : Covers(ret.panels[i], x, y)}) = 1
    /\ \A i \in 1..9 :
         /\ 0 <= ret.panels[i].left /\ ret.panels[i].left <= ret.panels[i].right
         /\ ret.panels[i].right <= arg.w
         /\ 0 <= ret.panels[i].top /\ ret.panels[i].top <= ret.panels[i].bottom
         /\ ret.panels[i].bottom <= arg.h
    /\ \A row \in 0..2, col \in 0..2 :
         LET box == ret.panels[3 * row + col + 1]
         IN /\ box.left = col * (arg.w \div 3)
            /\ box.top = row * (arg.h \div 3)
            /\ box.right - box.left = ColWidth(arg.w, col)
            /\ box.bottom - box.top = RowHeight(arg.h, row)

\* an 8 x 10 image: the last column is 4 wide, the last row 4 high
C18_Witness ==
  /\ ret.fn = "split_grid_3x3"
  /\ arg = [w |-> 8, h |-> 10]
  /\ ret.panels[9] = [left |-> 4, top |-> 6, right |-> 8, bottom |-> 10]
  /\ ret.panels[1] = [left |-> 0, top |-> 0, right |-> 2, bottom |-> 3]

\* ------------------------------------------------ the consumers of a job
\* ensure_job_pdf: ordered_panels = panels1 + panels2, one PDF page each.
\* A crop is named by the part whose grid it was cut from and by its split
\* index.
Crops(part) ==
  IF part = Nil THEN <<>>
  ELSE [i \in 1..Len(part[1].panels) |-> [part_no |-> part[1].part_no, idx |-> part[1].panels[i]]]

ordered_panels(job) == Crops(job.part1) \o Crops(job.part2)

\* render_comic_images_task: for part_no in [1, 2], for panel_idx in
\* range(len(panel_urls)), the row (page_number = part_no, panel_number =
\* panel_idx + 1) gets image_url = gcs_url or the preview path.
PreviewPath(j, pno, idx) == <<"/api/preview", j, pno, idx>>

PanelRows(job, pno, part) ==
  IF part = Nil THEN <<>>
  ELSE [i \in 1..Len(part[1].panel_urls) |->
          [page_number |-> pno, panel_number |-> i,
           image_url |-> IF part[1].panel_urls[i] # Nil THEN part[1].panel_urls[i]
                         ELSE PreviewPath(job.job_id, pno, i - 1)]]

\* the rows ordered by page_number, panel_number
panels_for_video(job) == PanelRows(job, 1, job.part1) \o PanelRows(job, 2, job.part2)

\* generate_cinematic_video: a panel whose image_url is neither an http URL
\* nor a file of the machine is skipped (the preview path is neither); the
\* clips of the others are joined in the order of the list.
Fetchable(row) == row.image_url[1] = "comics/panels"

panel_files(job) == SelectSeq(panels_for_video(job), Fetchable)

\* ------------------------------------------------------------------- C19
\* C19: split index idx and panel_no idx + 1 correspond one to one, and for
\* every done job and every k in 1..18, page k of the PDF is the crop with
\* split index (k-1) mod 9 of part (k-1) div 9 + 1, read-along page k names
\* that part and panel_no = index + 1, and clip k of the video is that panel.
C19_CanonicalOrder ==
  /\ {idx + 1 : idx \in 0..8} = 1..9
  /\ \A j \in DOMAIN JOBS :
       JOBS[j].status = "done" =>
         /\ Len(ordered_panels(JOBS[j])) = 18
         /\ Len(JOBS[j].read_pages) = 18
         /\ Len(panel_files(JOBS[j])) = 18
         /\ \A k \in 1..18 :
              LET p == ((k - 1) \div 9) + 1
                  i == (k - 1) % 9
              IN /\ ordered_panels(JOBS[j])[k] = [part_no |-> p, idx |-> i]
                 /\ JOBS[j].read_pages[k].part_no = p
                 /\ JOBS[j].read_pages[k].panel_no = i + 1
                 /\ panel_files(JOBS[j])[k].page_number = p
                 /\ panel_files(JOBS[j])[k].panel_number = i + 1

\* ---------------------------------------------------- upload_panels_parallel
\* upload_panels_parallel(job_id, part_no, panel_images) examined on its
\* own.  executor.map submits one upload_single per panel, the pool's
\* threads take them from the queue in order, at most UPLOAD_WORKERS run
\* at once, and they end in any order; list(executor.map(...)) collects the
\* results in the order of the input.  ret.st[i] tells where the upload of
\* panel_images[i - 1] stands, ret.result[i] what it returned.

\* upload_panel_to_gcs that names the blob by the 1-based panel number: C20
\* tells it from upload_panel_to_gcs.
upload_panel_to_gcs_OneBased(j, pno, idx, ok) ==
  IF ok THEN PanelUrl(j, pno, idx + 1) ELSE Nil

\* upload_panel_to_gcs / upload_image_to_gcs: the URL of the blob
\* part{part_no}_panel{panel_idx}.png, or None when there is no client or
\* the upload raised.
upload_panel_to_gcs(j, pno, idx, ok) ==
  IF ok THEN PanelUrl(j, pno, idx) ELSE Nil

UploadInputs == [job_id : JobIds, part_no : {1, 2}, panel_images : {[i \in 1..9 |-> i - 1]}]

InitUpload ==
  /\ Quiet
  /\ arg \in UploadInputs
  /\ ret = NoRet

\* with ThreadPoolExecutor(max_workers) as executor: executor.map(...)
UploadSubmit ==
  /\ ret = NoRet
  /\ ret' = [fn |-> "upload_panels_parallel", pc |-> "map",
             st |-> [i \in 1..Len(arg.panel_images) |-> "queued"],
             result |-> [i \in 1..Len(arg.panel_images) |-> Nil],
             urls |-> <<>>]
  /\ UNCHANGED <<arg, store>>

Running == {i \in DOMAIN ret.st : ret.st[i] = "running"}

\* a free thread of the pool takes the next work item of the queue
UploadBegins(i) ==
  /\ ret.fn = "upload_panels_parallel" /\ ret.pc = "map"
  /\ ret.st[i] = "queued"
  /\ \A k \in 1..(i - 1) : ret.st[k] # "queued"
  /\ Cardinality(Running) < UPLOAD_WORKERS
  /\ ret' = [ret EXCEPT !.st[i] = "running"]
  /\ UNCHANGED <<arg, store>>

\* upload_single((panel_idx, panel_img)) returns in its thread
UploadEnds(i, ok) ==
  /\ ret.fn = "upload_panels_parallel" /\ ret.pc = "map"
  /\ ret.st[i] = "running"
  /\ ret' = [ret EXCEPT !.st[i] = IF ok THEN "uploaded" ELSE "failed",
                        !.result[i] = upload_panel_to_gcs(arg.job_id, arg.part_no, i - 1, ok)]
  /\ UNCHANGED <<arg, store>>

\* urls = list(executor.map(...)) is complete; return urls
UploadReturn ==
  /\ ret.fn = "upload_panels_parallel" /\ ret.pc = "map"
  /\ \A i \in DOMAIN ret.st : ret.st[i] \in {"uploaded", "failed"}
  /\ ret' = [ret EXCEPT !.pc = "returned",
                        !.urls = [i \in 1..Len(arg.panel_images) |-> ret.result[i]]]
  /\ UNCHANGED <<arg, store>>

NextUpload ==
  \/ UploadSubmit
  \/ \E i \in 1..9 : UploadBegins(i)
  \/ \E i \in 1..9, ok \in BOOLEAN : UploadEnds(i, ok)
  \/ UploadReturn

UploadSpec == InitUpload /\ [][NextUpload]_vars

\* ------------------------------------------------------------------- C20
FailedUploads == {i - 1 : i \in {k \in DOMAIN ret.st : ret.st[k] = "failed"}}

\* C20: upload_panels_parallel returns one slot per panel; slot i holds the
\* URL of the blob part{part_no}_panel{i}.png, or None when upload i failed,
\* in whatever order the uploads ended; the other slots are as they would
\* be without the failure and the part payload is built from the list.
C20_SlotPerPanel ==
  (ret.fn = "upload_panels_parallel" /\ ret.pc = "returned") =>
    /\ Len(ret.urls) = Len(arg.panel_images)
    /\ \A i \in 0..(Len(arg.panel_images) - 1) :
         ret.urls[i + 1] = IF i \in FailedUploads THEN Nil
                           ELSE PanelUrl(arg.job_id, arg.part_no, i)
    /\ ret.urls = render_part_payload(arg.job_id, arg.part_no, FailedUploads).panel_urls

\* uploads 4 and 7 failed and the list was returned
C20_Witness ==
  /\ ret.fn = "upload_panels_parallel" /\ ret.pc = "returned"
  /\ FailedUploads = {4, 7}
  /\ ret.urls[5] = Nil /\ ret.urls[8] = Nil
  /\ ret.urls[4] = PanelUrl(arg.job_id, arg.part_no, 3)
  /\ ret.urls[9] = PanelUrl(arg.job_id, arg.part_no, 8)

\* ------------------------------------------------------------------- C21
CleanupRuns == last'.op = "cleanup" /\ UNCHANGED <<wk, cl, now>>

ExpiredJob(j) == Known(j) /\ Expired(Rec(j), now)

LiveJob(j) ==
  /\ Known(j)
  /\ j \in DOMAIN JOBS => ~Expired(JOBS[j], now)
  /\ j \in DOMAIN DISK => ~Expired(DISK[j], now)

FilesOf(j) == {PdfPath(j), GridPath(j, 1), GridPath(j, 2)}

\* C21: a Cleanup removes, for every expired job, its record, its job file,
\* its grid preview files and its PDF; it removes no blob, and it leaves
\* the records and the local files of every job that is not expired.
C21_CleanupFrame ==
  [][CleanupRuns =>
       /\ blobs' = blobs
       /\ \A j \in JobIds :
            /\ ExpiredJob(j) =>
                 /\ j \notin DOMAIN JOBS' /\ j \notin DOMAIN DISK'
                 /\ (pdf_files' \cup grid_files') \cap FilesOf(j) = {}
            /\ LiveJob(j) =>
                 /\ Known(j)' /\ Rec(j)' = Rec(j)
                 /\ j \in DOMAIN DISK => (j \in DOMAIN DISK' /\ DISK'[j] = DISK[j])
                 /\ (pdf_files' \cup grid_files') \cap FilesOf(j)
                      = (pdf_files \cup grid_files) \cap FilesOf(j)]_vars

\* ------------------------------------------------------ make_two_part_script
\* make_two_part_script examined on its own.  A call of the text model
\* raises (HTTP error, no candidate) or returns a text.  A text is empty,
\* holds no JSON object, or holds the JSON of a script, bare or inside a
\* ```json fence; json is what safe_json_from_text extracts from it, Nil
\* when it raises.  ret.raw is the sequence of the texts received so far,
\* ret.calls the number of model calls made.
ModelError == [kind |-> "error", json |-> Nil]

ModelTexts ==
  {[kind |-> "empty", json |-> Nil], [kind |-> "not_json", json |-> Nil]}
    \cup {[kind |-> k, json |-> Some(ScriptDef(n))] :
            k \in {"json", "fenced"},
            n \in {"ok", "shuffled", "twins", "one_part", "eight", "gap", "dup", "nokey"}}

ModelResponses == {ModelError} \cup ModelTexts

\* the text is taken for a script whatever it holds: C22 tells it from
\* Accepted.
Accepted_Any(text) == TRUE

\* safe_json_from_text(text) and validate_script_shape(script) both return
Accepted(text) == text.json # Nil /\ validate_script_shape(text.json[1])

InitGen ==
  /\ Quiet
  /\ arg \in [user_story : {"story"}, style_id : {"style"}]
  /\ ret = NoRet

\* raw_text = _call_text_model(full_prompt, temperature=0.35), outside the
\* try: an exception of the call leaves the function
GenCall(r) ==
  /\ ret = NoRet
  /\ ret' = [fn |-> "make_two_part_script", calls |-> 1,
             pc |-> IF r = ModelError THEN "raised" ELSE "check",
             raw |-> IF r = ModelError THEN <<>> ELSE <<r>>,
             script |-> Nil]
  /\ UNCHANGED <<arg, store>>

\* try: script = safe_json_from_text(raw_text); validate_script_shape(script)
GenCheck ==
  /\ ret.fn = "make_two_part_script" /\ ret.pc = "check"
  /\ ret' = IF Accepted(ret.raw[1])
            THEN [ret EXCEPT !.pc = "returned", !.script = ret.raw[1].json]
            ELSE [ret EXCEPT !.pc = "repair"]
  /\ UNCHANGED <<arg, store>>

\* except: repaired_text = _call_text_model(repair_prompt, temperature=0.0);
\* script = safe_json_from_text(repaired_text); validate_script_shape(script)
GenRepair(r) ==
  /\ ret.fn = "make_two_part_script" /\ ret.pc = "repair"
  /\ ret' = IF r = ModelError
            THEN [ret EXCEPT !.calls = @ + 1, !.pc = "raised"]
            ELSE IF Accepted(r)
            THEN [ret EXCEPT !.calls = @ + 1, !.raw = Append(@, r),
                             !.pc = "returned", !.script = r.json]
            ELSE [ret EXCEPT !.calls = @ + 1, !.raw = Append(@, r), !.pc = "raised"]
  /\ UNCHANGED <<arg, store>>

NextGen ==
  \/ \E r \in ModelResponses : GenCall(r)
  \/ GenCheck
  \/ \E r \in ModelResponses : GenRepair(r)

GenSpec == InitGen /\ [][NextGen]_vars

\* ------------------------------------------------------------------- C22
\* the text would pass on its own: it parses and has the shape
GoodText(text) == text.kind \in {"json", "fenced"} /\ validate_script_shape(text.json[1])

GenEnded == ret.fn = "make_two_part_script" /\ ret.pc \in {"returned", "raised"}

\* C22: the model is called at most twice; once only when the first text is
\* valid, a second time exactly when the first text fails parsing or
\* validation; after a failing second text the call fails; a script that is
\* returned passes validation.
C22_OneRepair ==
  ret.fn = "make_two_part_script" =>
    /\ ret.calls \in {1, 2}
    /\ (ret.raw # <<>> /\ GoodText(ret.raw[1])) => ret.calls = 1
    /\ (GenEnded /\ ret.raw # <<>> /\ ~GoodText(ret.raw[1])) => ret.calls = 2
    /\ ret.calls = 2 => (ret.raw # <<>> /\ ~GoodText(ret.raw[1]))
    /\ (GenEnded /\ Len(ret.raw) = 2) => (ret.pc = "returned" <=> GoodText(ret.raw[2]))
    /\ ret.pc = "returned" =>
         /\ ret.script # Nil
         /\ validate_script_shape(ret.script[1])
         /\ ret.script = ret.raw[Len(ret.raw)].json
    /\ GenEnded => ~ENABLED NextGen

\* the first text had a gap in its panel numbers, the repaired one is valid
C22_Witness ==
  /\ ret.fn = "make_two_part_script" /\ ret.pc = "returned"
  /\ ret.calls = 2
  /\ ret.raw[1].json = Some(ScriptDef("gap"))
  /\ ret.script = Some(ScriptDef("ok"))

\* ------------------------------------------------------------------- C26
\* the workers that may still write into the record of job j
Writers(j) == {w \in Workers : wk[w].job = j /\ wk[w].pc \in {"spawned", "wait1", "wait2", "join"}}

\* C26: a job is created once: StartRenderJob never returns a job_id whose
\* record exists and is not expired when it is called, and at any time at
\* most one render worker is writing into the record of a job_id.
C26_CreatedOnce ==
  [][/\ StartReturns => ~LiveJob(last'.job)
     /\ \A j \in JobIds : Cardinality(Writers(j)') <= 1]_vars

\* ------------------------------------------------------------------- C27
\* the step in which a GetJob that read the job file re-inserts the record
ReviveEnds(j) ==
  /\ cl.pc = "revive" /\ cl.job = j
  /\ cl'.pc # "revive"
  /\ restarts' = restarts

\* the record of j in memory has been updated through _job_set since it was
\* created (a record is created queued and _job_set is what changes that)
UpdatedInMemory(j) == j \in DOMAIN JOBS /\ JOBS[j].status # "queued"

\* C27: a GetJob that revives a job from disk never rolls back an update
\* made meanwhile: when the revival completes, an updated record that is in
\* memory is left as it is, and it equals the record on disk.
C27_NoLostUpdate ==
  [][\A j \in JobIds :
       (ReviveEnds(j) /\ UpdatedInMemory(j)) =>
         /\ JOBS'[j] = JOBS[j]
         /\ j \in DOMAIN DISK' => JOBS'[j] = DISK'[j]]_vars

\* ------------------------------------------------------------------- C28
\* a step of a worker of job j that is past its start
WorkerActs(j) ==
  \E w \in Workers :
    /\ wk[w].job = j
    /\ wk[w].pc \in {"spawned", "wait1", "wait2", "join"}
    /\ wk'[w] # wk[w]
    /\ restarts' = restarts

\* C28: while a job is absent from memory and disk (Cleanup has removed it
\* and it has not been started again), an update of its worker leaves it
\* absent from both, and a GetJob called for it returns NotFound.
C28_NoResurrection ==
  [][\A j \in JobIds :
       ~Known(j) =>
         /\ WorkerActs(j) => (JOBS' = JOBS /\ DISK' = DISK)
         /\ (cl.pc = "idle" /\ last'.op = "get_job" /\ last'.job = j)
              => last'.out = "NotFound"]_vars

\* The worker's final status update has just been made on a job that is on
\* neither side.  The wait for a part timed out, which takes two steps of the
\* clock; the third and last step made the job expire while the worker was
\* waiting for the pool; Cleanup removed the job; the step before this state
\* is then the worker's last _job_set (a Cleanup after it would show in last,
\* and the clock has no step left).
C28_Witness ==
  \E w \in Workers :
    /\ starts = 1 /\ restarts = 0 /\ ticks = MaxTicks
    /\ wk[w].job = "j1" /\ wk[w].pc = "finished"
    /\ wk[w].got[1] = "timeout" \/ wk[w].got[2] = "timeout"
    /\ last = NoCall /\ cl = IdleClient
    /\ ~Known("j1")

\* ======================================================================
\* The video synthesizer (src/video_generator.py).  Times are counted in
\* tenths of a second, so that 0.3 s, 0.5 s, 3.0 s, 4.0 s and 8.0 s are whole.
PANEL_DURATION == 40

TRANSITION_DURATION == 5

MIN_PANEL_DURATION == 30

MAX_PANEL_DURATION == 80

\* the literal 0.3 added to the narration length
NARRATION_BUFFER == 3

MaxPanels == 3

\* narration lengths returned by generate_tts_audio: 0 (an empty track),
\* 1.0 s (shorter than the minimum) and 10.0 s (longer than the 8.0 s constant)
AudioLens == {0, 10, 100}

MaxOf(a, b) == IF a >= b THEN a ELSE b

MinOf(a, b) == IF a <= b THEN a ELSE b

RECURSIVE SumSeq(_)
SumSeq(s) == IF s = <<>> THEN 0 ELSE s[1] + SumSeq(Tail(s))

\* s[1..n]
Prefix(s, n) == SubSeq(s, 1, n)

\* what the environment does to one panel: whether its image can be fetched,
\* what speech synthesis returns (None, or the length of the audio), and how
\* its two renders end (motion render succeeds; motion render exits non-zero
\* and the static render succeeds; both exit non-zero; the motion render
\* exceeds its time limit and subprocess.run raises)
VideoPanels ==
  [fetch : {"ok", "skip"},
   tts : {Nil} \cup {Some(a) : a \in AudioLens},
   render : {"motion", "static", "none", "timeout"}]

PanelLists == UNION {[1..n -> VideoPanels] : n \in 1..MaxPanels}

\* duration = PANEL_DURATION; if audio_duration: duration = max(MIN, a + T + 0.3)
panel_duration_Capped(tts) ==
  IF tts # Nil /\ tts[1] # 0
  THEN MinOf(MAX_PANEL_DURATION,
             MaxOf(MIN_PANEL_DURATION, tts[1] + TRANSITION_DURATION + NARRATION_BUFFER))
  ELSE PANEL_DURATION

panel_duration(tts) ==
  IF tts # Nil /\ tts[1] # 0
  THEN MaxOf(MIN_PANEL_DURATION, tts[1] + TRANSITION_DURATION + NARRATION_BUFFER)
  ELSE PANEL_DURATION

\* audio_files.append(audio_path) if audio_duration else audio_files.append(None)
audio_file(tts) == IF tts # Nil /\ tts[1] # 0 THEN tts ELSE Nil

\* the panels that are not skipped, by their index in the list, in list order
RECURSIVE Fetched(_, _)
Fetched(panels, i) ==
  IF i > Len(panels) THEN <<>>
  ELSE IF panels[i].fetch = "ok" THEN <<i>> \o Fetched(panels, i + 1)
  ELSE Fetched(panels, i + 1)

\* the panel videos of step 3: position k of panel_files gets a clip unless
\* both of its renders fail (continue)
RECURSIVE Clips(_, _, _, _)
Clips(panels, files, durations, k) ==
  IF k > Len(files) THEN <<>>
  ELSE LET r == panels[files[k]].render
           rest == Clips(panels, files, durations, k + 1)
       IN IF r = "none" THEN rest
          ELSE <<[slot |-> k, panel |-> files[k],
                  kind |-> IF r = "motion" THEN "motion" ELSE "static",
                  dur |-> durations[k]]>> \o rest

\* the xfade offsets: panel_durations[0] - T, then += panel_durations[i] - T,
\* for i in range(len(panel_videos) - 1)
RECURSIVE Offsets(_, _)
Offsets(durations, n) ==
  IF n = 0 THEN <<>>
  ELSE IF n = 1 THEN <<durations[1] - TRANSITION_DURATION>>
  ELSE LET before == Offsets(durations, n - 1)
       IN Append(before, before[n - 1] + durations[n] - TRANSITION_DURATION)

\* the parts of the narration track of step 5, in order: for every entry of
\* panel_durations the narration (if any), then silence up to the target
RECURSIVE AudioParts(_, _, _)
AudioParts(audio, durations, i) ==
  IF i > Len(durations) THEN <<>>
  ELSE LET target == IF i < Len(durations) THEN durations[i] - TRANSITION_DURATION
                     ELSE durations[i]
           a == IF audio[i] # Nil THEN audio[i][1] ELSE 0
           silence == MaxOf(0, target - a)
       IN (IF audio[i] # Nil THEN <<[kind |-> "narration", slot |-> i, len |-> a]>> ELSE <<>>)
          \o (IF silence >= 1 THEN <<[kind |-> "silence", slot |-> i, len |-> silence]>> ELSE <<>>)
          \o AudioParts(audio, durations, i + 1)

NoVideo ==
  [fn |-> "generate_video_for_comic", pc |-> "prepare",
   panel_files |-> <<>>, panel_durations |-> <<>>, audio_files |-> <<>>,
   panel_videos |-> <<>>, offsets |-> <<>>, join |-> "none", audio_parts |-> <<>>,
   success |-> Nil, output |-> FALSE, upload |-> "none", work_dir |-> TRUE,
   result |-> Nil]

InitVideo ==
  /\ Quiet
  /\ arg \in [panels : PanelLists, upload_to_gcs : BOOLEAN]
  /\ ret = NoRet

\* generate_video_for_comic creates its work_dir and calls
\* generate_cinematic_video; steps 1 and 2: images, narration, durations
VideoPrepare ==
  /\ ret = NoRet
  /\ LET files == Fetched(arg.panels, 1)
         n == Len(files)
     IN ret' = IF n = 0
               THEN [NoVideo EXCEPT !.pc = "generated", !.success = Some(FALSE)]
               ELSE [NoVideo EXCEPT
                       !.pc = "render",
                       !.panel_files = files,
                       !.panel_durations = [k \in 1..n |-> panel_duration(arg.panels[files[k]].tts)],
                       !.audio_files = [k \in 1..n |-> audio_file(arg.panels[files[k]].tts)]]
  /\ UNCHANGED <<arg, store>>

\* step 3: one clip per prepared panel; a render that exceeds its time limit
\* raises and the outer except returns False
VideoRender ==
  /\ ret.fn = "generate_video_for_comic" /\ ret.pc = "render"
  /\ LET clips == Clips(arg.panels, ret.panel_files, ret.panel_durations, 1)
         raised == \E k \in 1..Len(ret.panel_files) :
                      arg.panels[ret.panel_files[k]].render = "timeout"
     IN ret' = IF raised \/ clips = <<>>
               THEN [ret EXCEPT !.pc = "generated", !.success = Some(FALSE)]
               ELSE [ret EXCEPT !.pc = "join", !.panel_videos = clips]
  /\ UNCHANGED <<arg, store>>

\* step 4: one clip is used as it is; otherwise the xfade chain is run with
\* the computed offsets, and when ffmpeg refuses it the clips are
\* concatenated (the outcome of that second run is not looked at)
VideoJoin(outcome) ==
  /\ ret.fn = "generate_video_for_comic" /\ ret.pc = "join"
  /\ LET n == Len(ret.panel_videos)
     IN /\ (n = 1) => outcome = "single"
        /\ (n > 1) => outcome \in {"xfade", "concat", "missing"}
        /\ ret' = [ret EXCEPT !.pc = "audio", !.join = outcome,
                              !.offsets = Offsets(ret.panel_durations, n - 1)]
  /\ UNCHANGED <<arg, store>>

\* step 5: the narration track is built when there is narration and a joined
\* video; the result is copied to output_path when the joined video exists;
\* True is returned
VideoAudio ==
  /\ ret.fn = "generate_video_for_comic" /\ ret.pc = "audio"
  /\ LET joined == ret.join # "missing"
         narrated == \E k \in 1..Len(ret.audio_files) : ret.audio_files[k] # Nil
     IN ret' = [ret EXCEPT
                  !.pc = "generated",
                  !.audio_parts = IF narrated /\ joined
                                  THEN AudioParts(ret.audio_files, ret.panel_durations, 1)
                                  ELSE <<>>,
                  !.output = joined,
                  !.success = Some(TRUE)]
  /\ UNCHANGED <<arg, store>>

\* back in generate_video_for_comic: None when generation failed or left no
\* file; the local path when no upload is asked for; otherwise the upload,
\* whose failure is answered with the local path
VideoUpload(uploaded) ==
  /\ ret.fn = "generate_video_for_comic" /\ ret.pc = "generated"
  /\ ret' = IF ret.success # Some(TRUE) \/ ~ret.output
            THEN [ret EXCEPT !.pc = "finally", !.result = Nil]
            ELSE IF ~arg.upload_to_gcs
            THEN [ret EXCEPT !.pc = "finally", !.result = Some("path")]
            ELSE [ret EXCEPT !.pc = "finally",
                             !.upload = IF uploaded THEN "ok" ELSE "failed",
                             !.result = IF uploaded THEN Some("url") ELSE Some("path")]
  /\ (ret.success # Some(TRUE) \/ ~ret.output \/ ~arg.upload_to_gcs) => uploaded
  /\ UNCHANGED <<arg, store>>

\* finally: if upload_to_gcs and os.path.exists(work_dir): shutil.rmtree(work_dir),
\* any exception of which is swallowed; then the caller has the result
VideoFinally(removed) ==
  /\ ret.fn = "generate_video_for_comic" /\ ret.pc = "finally"
  /\ ~arg.upload_to_gcs => ~removed
  /\ ret' = [ret EXCEPT !.pc = "returned",
                        !.work_dir = ~removed,
                        !.output = ret.output /\ ~removed]
  /\ UNCHANGED <<arg, store>>

NextVideo ==
  \/ VideoPrepare
  \/ VideoRender
  \/ \E outcome \in {"single", "xfade", "concat", "missing"} : VideoJoin(outcome)
  \/ VideoAudio
  \/ \E uploaded \in BOOLEAN : VideoUpload(uploaded)
  \/ \E removed \in BOOLEAN : VideoFinally(removed)

VideoSpec == InitVideo /\ [][NextVideo]_vars

\* ------------------------------------------------------------------- C23
VideoReturned == ret.fn = "generate_video_for_comic" /\ ret.pc = "returned"

\* the video file was produced and its upload failed
UploadFailed == VideoReturned /\ ret.success = Some(TRUE) /\ ret.upload = "failed"

\* C23: when the video file was produced and the upload fails, the caller
\* receives the local path, and the file at that path exists at that moment.
C23_FallbackUsable ==
  UploadFailed => (ret.result = Some("path") /\ ret.output)

\* ------------------------------------------------------------------- C24
VideoBuilt ==
  /\ ret.fn = "generate_video_for_comic"
  /\ ret.pc \in {"generated", "finally", "returned"}
  /\ ret.success = Some(TRUE)

ClipDurations == [c \in 1..Len(ret.panel_videos) |-> ret.panel_videos[c].dur]

\* length of the picture track: the last crossfade starts at its offset and
\* plays the last clip through; concatenated clips simply add up
PictureLength ==
  LET n == Len(ret.panel_videos)
  IN IF n = 1 \/ ret.join = "concat" THEN SumSeq(ClipDurations)
     ELSE ret.offsets[n - 1] + ret.panel_videos[n].dur

\* the instant clip c begins to show
PictureStart(c) ==
  IF c = 1 THEN 0
  ELSE IF ret.join = "concat" THEN SumSeq(Prefix(ClipDurations, c - 1))
  ELSE ret.offsets[c - 1]

AudioLength == SumSeq([p \in 1..Len(ret.audio_parts) |-> ret.audio_parts[p].len])

\* the instant the narration of slot k begins in the narration track
NarrationStart(k) ==
  LET p == CHOOSE q \in 1..Len(ret.audio_parts) :
             ret.audio_parts[q].kind = "narration" /\ ret.audio_parts[q].slot = k
  IN SumSeq([q \in 1..(p - 1) |-> ret.audio_parts[q].len])

\* C24: whenever a narration track is built, its length after silence padding
\* equals the length of the picture track, and every clip's narration starts
\* at the instant the clip starts, with crossfades and with plain
\* concatenation alike.
C24_AudioVideoSync ==
  (VideoBuilt /\ ret.audio_parts # <<>>) =>
    /\ AudioLength = PictureLength
    /\ \A c \in 1..Len(ret.panel_videos) :
         ret.audio_files[ret.panel_videos[c].slot] # Nil =>
           NarrationStart(ret.panel_videos[c].slot) = PictureStart(c)

\* ------------------------------------------------------------------- C25
Prepared == ret.fn = "generate_video_for_comic" /\ ret.panel_files # <<>>

\* C25: a panel whose speech synthesis returned audio of length a > 0 lasts
\* max(3.0 s, a + 0.5 s + 0.3 s): at least a + 0.8 s, beyond 8.0 s when
\* a + 0.8 s is; a panel without narration audio (synthesis returned nothing,
\* or an empty track) lasts 4.0 s.
C25_PanelDuration ==
  Prepared =>
    \A k \in 1..Len(ret.panel_files) :
      LET tts == arg.panels[ret.panel_files[k]].tts
          d == ret.panel_durations[k]
      IN IF tts # Nil /\ tts[1] > 0
         THEN /\ d = (IF tts[1] + 8 >= 30 THEN tts[1] + 8 ELSE 30)
              /\ d >= tts[1] + 8
              /\ d >= 30
         ELSE d = 40

\* a ten-second narration makes a panel of 10.8 s, longer than 8.0 s; next to
\* it a one-second narration makes a panel of the minimum 3.0 s
C25_Witness ==
  /\ Prepared
  /\ \E k \in 1..Len(ret.panel_files) :
       /\ arg.panels[ret.panel_files[k]].tts = Some(100)
       /\ ret.panel_durations[k] = 108
       /\ ret.panel_durations[k] > MAX_PANEL_DURATION
  /\ \E k \in 1..Len(ret.panel_files) :
       /\ arg.panels[ret.panel_files[k]].tts = Some(10)
       /\ ret.panel_durations[k] = 30

\* ------------------------------------------------------------------- C29
Rendered ==
  /\ ret.fn = "generate_video_for_comic"
  /\ ret.pc \in {"join", "audio", "generated", "finally", "returned"}
  /\ ret.panel_files # <<>>

\* the prepared slots whose motion render failed
MotionFailed ==
  {k \in 1..Len(ret.panel_files) : arg.panels[ret.panel_files[k]].render # "motion"}

\* C29: when the motion render of one panel fails, the generation is not
\* aborted: that panel has a static clip of its duration, every other panel
\* has its motion clip, the clips are in panel order, and the generation
\* reports success once it has ended.
C29_StaticFallback ==
  (Rendered /\ Cardinality(MotionFailed) = 1) =>
    /\ ret.success # Some(FALSE)
    /\ Len(ret.panel_videos) = Len(ret.panel_files)
    /\ \A k \in 1..Len(ret.panel_videos) :
         /\ ret.panel_videos[k].slot = k
         /\ ret.panel_videos[k].dur = ret.panel_durations[k]
         /\ ret.panel_videos[k].kind = (IF k \in MotionFailed THEN "static" ELSE "motion")
    /\ ret.pc \in {"generated", "finally", "returned"} => ret.success = Some(TRUE)

\* ------------------------------------------------------------------- C30
Joined ==
  /\ ret.fn = "generate_video_for_comic"
  /\ ret.pc \in {"audio", "generated", "finally", "returned"}
  /\ Len(ret.panel_videos) >= 2

\* C30: with n >= 2 joined clips of durations d_0 .. d_(n-1), the crossfade
\* that joins clip i+1 starts at d_0 + ... + d_i - (i+1)*T; the offsets are
\* strictly increasing; the crossfaded video lasts d_0 + ... + d_(n-1) - (n-1)*T.
C30_CrossfadeOffsets ==
  Joined =>
    LET n == Len(ret.panel_videos)
    IN /\ Len(ret.offsets) = n - 1
       /\ \A i \in 1..(n - 1) :
            ret.offsets[i] = SumSeq(Prefix(ClipDurations, i)) - i * TRANSITION_DURATION
       /\ \A i \in 1..(n - 2) : ret.offsets[i] < ret.offsets[i + 1]
       /\ ret.join = "xfade" =>
            PictureLength = SumSeq(ClipDurations) - (n - 1) * TRANSITION_DURATION

====
